---- MODULE Spec2Model ----
(***************************************************************************)
(* State-machine model of the SolarSystem visualization component          *)
(* (src/components/visualizations/SolarSystem.tsx, second component of the *)
(* file, lines 1290-2432): the camera, the camera transition, the          *)
(* simulation clock and the input handlers that mutate them.               *)
(*                                                                         *)
(* Numbers.  Every JavaScript number of the component is an IEEE-754       *)
(* double.  The model keeps the arithmetic of the code and its rounding:   *)
(* a number is a pair <<m, e>> standing for m * 2^e, with a significand of *)
(* Prec bits (2^(Prec-1) <= |m| < 2^Prec, or <<0, 0>> for zero), and every *)
(* operation rounds its exact result to the nearest such number, ties to   *)
(* even, as IEEE-754 does with 53 bits.  Timestamps in milliseconds are    *)
(* small integers, exact in doubles, and are kept as integers.             *)
(***************************************************************************)
EXTENDS Integers, Sequences, FiniteSets, TLC

\* Significand width of the modelled floating-point numbers.
Prec == 10

Pow2(n) == 2 ^ n

Abs(n) == IF n < 0 THEN -n ELSE n

Sgn(n) == IF n < 0 THEN -1 ELSE IF n > 0 THEN 1 ELSE 0

RECURSIVE BitLen(_)
BitLen(n) == IF n = 0 THEN 0 ELSE 1 + BitLen(n \div 2)

FZero == <<0, 0>>

\* sg * (q + 1) * 2^e, renormalised when q + 1 needs one more bit.
RoundedUp(sg, q, e) ==
    IF q + 1 = Pow2(Prec) THEN <<sg * Pow2(Prec - 1), e + 1>>
    ELSE <<sg * (q + 1), e>>

\* sg * (q + r / (2 * half)) * 2^e rounded to the nearest, ties to even.
Rounded(sg, q, r, half, e) ==
    IF r > half \/ (r = half /\ q % 2 = 1) THEN RoundedUp(sg, q, e)
    ELSE <<sg * q, e>>

\* sg * a * 2^e with the s lowest bits of a rounded away.
Shortened(sg, a, s, e) ==
    Rounded(sg, a \div Pow2(s), a % Pow2(s), Pow2(s - 1), e + s)

\* sg * a * 2^e for a > 0 of len bits, with a Prec-bit significand.
Fitted(sg, a, len, e) ==
    IF len <= Prec THEN <<sg * a * Pow2(Prec - len), e - (Prec - len)>>
    ELSE Shortened(sg, a, len - Prec, e)

\* The number nearest to n * 2^e with a Prec-bit significand, ties to even.
Norm(n, e) ==
    IF n = 0 THEN FZero ELSE Fitted(Sgn(n), Abs(n), BitLen(Abs(n)), e)

FNeg(a) == <<-a[1], a[2]>>

FAbs(a) == <<Abs(a[1]), a[2]>>

\* hi + lo for hi[2] - lo[2] = d >= 0.  When the exponents differ by more
\* than Prec + 2 the smaller operand is below a quarter of the last place of
\* the larger one.
Aligned(hi, lo, d) ==
    IF d > Prec + 2 THEN hi ELSE Norm(hi[1] * Pow2(d) + lo[1], lo[2])

\* a + b, rounded.
FAdd(a, b) ==
    IF a[1] = 0 THEN b
    ELSE IF b[1] = 0 THEN a
    ELSE Aligned(IF a[2] >= b[2] THEN a ELSE b,
                 IF a[2] >= b[2] THEN b ELSE a,
                 Abs(a[2] - b[2]))

FSub(a, b) == FAdd(a, FNeg(b))

FMul(a, b) == Norm(a[1] * b[1], a[2] + b[2])

\* sg * (n / d) * 2^(e + 1): the integer quotient and a sticky bit.
Quotient(sg, n, d, e) ==
    Norm(sg * (2 * (n \div d) + (IF n % d = 0 THEN 0 ELSE 1)), e)

\* a / b for b # 0, rounded: the quotient to Prec + 3 bits and a sticky bit.
FDiv(a, b) ==
    IF a[1] = 0 THEN FZero
    ELSE Quotient(Sgn(a[1]) * Sgn(b[1]), Abs(a[1]) * Pow2(Prec + 2),
                  Abs(b[1]), a[2] - b[2] - (Prec + 3))

FLt(a, b) ==
    IF Sgn(a[1]) # Sgn(b[1]) THEN Sgn(a[1]) < Sgn(b[1])
    ELSE IF a[1] = 0 THEN FALSE
    ELSE IF a[1] > 0 THEN a[2] < b[2] \/ (a[2] = b[2] /\ a[1] < b[1])
    ELSE a[2] > b[2] \/ (a[2] = b[2] /\ a[1] < b[1])

FLe(a, b) == a = b \/ FLt(a, b)

FMax(a, b) == IF FLt(a, b) THEN b ELSE a

FMin(a, b) == IF FLt(b, a) THEN b ELSE a

\* An integer as a number (rounded when it has more than Prec bits).
FInt(n) == Norm(n, 0)

\* The decimal literal n / 10^k.
FDec(n, k) == FDiv(FInt(n), FInt(10 ^ k))

\* A numeric literal of the source, written <<n, k>> for n / 10^k.
Num(literal) == FDec(literal[1], literal[2])

\* Square root of a >= 0, rounded: integer square root of the significand
\* scaled to 2 * Prec + 2 bits, with a sticky bit.
RECURSIVE ISqrtFrom(_, _)
ISqrtFrom(n, g) ==
    LET h == (g + n \div g) \div 2
    IN  IF h >= g THEN g ELSE ISqrtFrom(n, h)

ISqrt(n) == IF n < 2 THEN n ELSE ISqrtFrom(n, n)

\* sqrt(m * 2^e) for e even, s the integer square root of m.
RootRounded(m, s, e) == Norm(2 * s + (IF s * s = m THEN 0 ELSE 1), (e \div 2) - 1)

\* sqrt(a) with the significand of a scaled by 2^k.
RootScaled(a, k) == RootRounded(a[1] * Pow2(k), ISqrt(a[1] * Pow2(k)), a[2] - k)

FSqrt(a) ==
    IF a[1] = 0 THEN FZero
    ELSE RootScaled(a, Prec + (IF ((a[2] - Prec) % 2) # 0 THEN 3 ELSE 2))

\* n / p to the nearest integer, halves up, for n >= 0.
NearestQuotient(n, p) == (2 * n + p) \div (2 * p)

\* The integer nearest to a, halves away from zero.
FNearest(a) ==
    IF a[1] = 0 THEN 0
    ELSE IF a[2] >= 0 THEN a[1] * Pow2(a[2])
    ELSE IF -a[2] > Prec THEN 0
    ELSE Sgn(a[1]) * NearestQuotient(Abs(a[1]), Pow2(-a[2]))

\* |a| mod b for |a| >= b > 0 and d = a[2] - b[2]: exact.
Remainder(a, b, d) ==
    Norm(Sgn(a[1]) * (IF d >= 0 THEN (Abs(a[1]) * Pow2(d)) % b[1]
                      ELSE Abs(a[1]) % (b[1] * Pow2(-d))),
         IF d >= 0 THEN b[2] ELSE a[2])

\* The remainder of a / b with the sign of a (JavaScript %), b > 0: exact.
FMod(a, b) ==
    IF a[1] = 0 THEN FZero
    ELSE IF FLt(FAbs(a), b) THEN a
    ELSE Remainder(a, b, a[2] - b[2])

(***************************************************************************)
(* Math.PI, Math.cos, Math.sin.  The argument is reduced by the nearest    *)
(* multiple of PI / 2 and the remainder goes through the Taylor polynomial *)
(* of degree 7 (sine) or 6 (cosine), every step rounded.                   *)
(***************************************************************************)
MathPI == Norm(3294199, -20)

HalfPI == <<MathPI[1], MathPI[2] - 1>>

FOne == FInt(1)

\* -1/3!, 1/5!, -1/7!
SinCoeffs == << FDiv(FInt(-1), FInt(6)), FDiv(FInt(1), FInt(120)),
                FDiv(FInt(-1), FInt(5040)) >>

\* -1/2!, 1/4!, -1/6!
CosCoeffs == << FDiv(FInt(-1), FInt(2)), FDiv(FInt(1), FInt(24)),
                FDiv(FInt(-1), FInt(720)) >>

\* cs[i] + z * (cs[i+1] + z * (...)), every step rounded.
RECURSIVE Horner(_, _, _)
Horner(cs, z, i) ==
    IF i = Len(cs) THEN cs[i]
    ELSE FAdd(cs[i], FMul(z, Horner(cs, z, i + 1)))

SinSeries(r, r2) == FAdd(r, FMul(FMul(r, r2), Horner(SinCoeffs, r2, 1)))

SinPoly(r) == SinSeries(r, FMul(r, r))

CosSeries(r2) == FAdd(FOne, FMul(r2, Horner(CosCoeffs, r2, 1)))

CosPoly(r) == CosSeries(FMul(r, r))

Quadrant(x) == FNearest(FDiv(x, HalfPI))

\* x - k * PI/2
Reduced(x, k) == FSub(x, FMul(FInt(k), HalfPI))

Signed(negative, a) == IF negative THEN FNeg(a) ELSE a

\* cos(r + q * PI/2) for q in 0..3 and |r| <= PI/4.
CosShifted(q, r) ==
    Signed(q = 1 \/ q = 2, IF q % 2 = 0 THEN CosPoly(r) ELSE SinPoly(r))

CosNear(x, k) == CosShifted(k % 4, Reduced(x, k))

MathCos(x) == CosNear(x, Quadrant(x))

\* sin(y) = cos(y + 3 * PI/2)
SinNear(x, k) == CosShifted((k + 3) % 4, Reduced(x, k))

MathSin(x) == SinNear(x, Quadrant(x))

(***************************************************************************)
(* Program constants and helpers.                                          *)
(***************************************************************************)
AU_KM == FDec(1495978707, 1)

TAU == FMul(MathPI, FInt(2))

ZOOM_MIN == FDec(2, 2)

ZOOM_MAX == FInt(200000)

SPEED_MIN == FInt(0)

SPEED_MAX == FInt(20000)

clamp(x, min, max) == FMax(min, FMin(max, x))

lerp(a, b, t) == FAdd(a, FMul(FSub(b, a), t))

toRadians(deg) == FDiv(FMul(deg, MathPI), FInt(180))

\* a < 0 ? a + TAU : a
Wrapped(a) == IF FLt(a, FZero) THEN FAdd(a, TAU) ELSE a

normalizeAngle(angle) == Wrapped(FMod(angle, TAU))

KeplerTolerance == FDec(1, 8)

KeplerStartPi == FDec(8, 1)

KeplerMaxIter == 12

\* delta = f / fPrime of one pass of solveKepler at the iterate E.
KeplerDelta(E, m, e) ==
    FDiv(FSub(FSub(E, FMul(e, MathSin(E))), m),
         FSub(FOne, FMul(e, MathCos(E))))

\* The loop of solveKepler from its i-th pass on, E the current iterate.
RECURSIVE KeplerLoop(_, _, _, _)
KeplerStep(E, delta, m, e, i) ==
    IF FLt(FAbs(delta), KeplerTolerance) THEN FSub(E, delta)
    ELSE KeplerLoop(FSub(E, delta), m, e, i + 1)

KeplerLoop(E, m, e, i) ==
    IF i >= KeplerMaxIter THEN E
    ELSE KeplerStep(E, KeplerDelta(E, m, e), m, e, i)

\* Fault variant of the first iterate: m whatever the eccentricity.
KeplerStartAlwaysM(m, e) == m

\* let E = e < 0.8 ? m : Math.PI
KeplerStart(m, e) == IF FLt(e, KeplerStartPi) THEN m ELSE MathPI

KeplerFrom(m, eccentricity) ==
    IF eccentricity = FZero THEN m
    ELSE KeplerLoop(KeplerStart(m, eccentricity), m, eccentricity, 0)

solveKepler(meanAnomaly, eccentricity) ==
    KeplerFrom(normalizeAngle(meanAnomaly), eccentricity)

(***************************************************************************)
(* BODIES: the configured bodies, in list order, the numeric fields as the *)
(* literals of the source (<<n, k>> for n / 10^k).  period_days of the Sun *)
(* is Infinity in the source and is never read for it.                     *)
(***************************************************************************)
Body(name, type, sma, radius, period, ecc, peri) ==
    [name |-> name, type |-> type, sma_au |-> sma, radius_km |-> radius,
     period_days |-> period, eccentricity |-> ecc, perihelion_deg |-> peri]

BODIES ==
    << Body("Sun", "star", <<0, 0>>, <<695700, 0>>, <<0, 0>>, <<0, 0>>, <<0, 0>>),
       Body("Mercury", "planet", <<387098, 6>>, <<24397, 1>>,
            <<87969, 3>>, <<20563, 5>>, <<774578, 4>>),
       Body("Venus", "planet", <<723332, 6>>, <<60518, 1>>,
            <<224701, 3>>, <<6772, 6>>, <<1316025, 4>>),
       Body("Earth", "planet", <<1, 0>>, <<6371, 0>>,
            <<365256, 3>>, <<1671, 5>>, <<1029377, 4>>),
       Body("Mars", "planet", <<1523679, 6>>, <<33895, 1>>,
            <<68698, 2>>, <<93394, 6>>, <<3360408, 4>>),
       Body("Jupiter", "planet", <<52044, 4>>, <<69911, 0>>,
            <<4332589, 3>>, <<48386, 6>>, <<147539, 4>>),
       Body("Saturn", "planet", <<95826, 4>>, <<58232, 0>>,
            <<1075922, 2>>, <<53862, 6>>, <<924319, 4>>),
       Body("Uranus", "planet", <<192184, 4>>, <<25362, 0>>,
            <<306854, 1>>, <<47257, 6>>, <<1709642, 4>>),
       Body("Neptune", "planet", <<3011, 2>>, <<24622, 0>>,
            <<60190, 0>>, <<859, 5>>, <<449714, 4>>) >>

\* The value of BODIES.find when no body has the name.
undefined == [undefined |-> TRUE]

\* The first body of the list from index i on that has the name.
RECURSIVE FindBody(_, _, _)
FindBody(bodies, name, i) ==
    IF i > Len(bodies) THEN undefined
    ELSE IF bodies[i].name = name THEN bodies[i]
    ELSE FindBody(bodies, name, i + 1)

bodyByName(name) == FindBody(BODIES, name, 1)

Point(x, y) == [x |-> x, y |-> y]

\* The branch of bodyPositionAUprime for e = 0.
OnCircle(a, angle) == Point(FMul(a, MathCos(angle)), FMul(a, MathSin(angle)))

\* The rotation of (xPrime, yPrime) by the argument of perihelion.
Rotated(xPrime, yPrime, cosO, sinO) ==
    Point(FSub(FMul(xPrime, cosO), FMul(yPrime, sinO)),
          FAdd(FMul(xPrime, sinO), FMul(yPrime, cosO)))

\* Fault variant of the ellipse: centred on the star instead of having the
\* star at a focus.
OnEllipseCentred(a, e, E, omega) ==
    Rotated(FMul(a, MathCos(E)),
            FMul(FMul(a, FSqrt(FSub(FOne, FMul(e, e)))), MathSin(E)),
            MathCos(omega), MathSin(omega))

\* The point of the ellipse at the eccentric anomaly E, perihelion at omega.
OnEllipse(a, e, E, omega) ==
    Rotated(FMul(a, FSub(MathCos(E), e)),
            FMul(FMul(a, FSqrt(FSub(FOne, FMul(e, e)))), MathSin(E)),
            MathCos(omega), MathSin(omega))

\* meanAnomaly = normalizeAngle(meanMotion * tDays), meanMotion = TAU / period
MeanAnomaly(period, tDays) == normalizeAngle(FMul(FDiv(TAU, period), tDays))

OrbitPoint(a, e, period, perihelion, tDays) ==
    IF e = FZero
    THEN OnCircle(a, FMul(TAU, FDiv(FMod(tDays, period), period)))
    ELSE OnEllipse(a, e, solveKepler(MeanAnomaly(period, tDays), e),
                   toRadians(perihelion))

bodyPositionAUprime(body, tDays) ==
    IF body = undefined \/ body.name = "Sun" THEN Point(FZero, FZero)
    ELSE OrbitPoint(Num(body.sma_au), Num(body.eccentricity),
                    Num(body.period_days), Num(body.perihelion_deg), tDays)

\* body.sma_au * (1 + body.eccentricity)
Apoapsis(body) == FMul(Num(body.sma_au), FAdd(FOne, Num(body.eccentricity)))

\* Math.max(...BODIES.map((body) => body.sma_au * (1 + body.eccentricity)))
RECURSIVE MaxApoapsis(_, _)
MaxApoapsis(bodies, i) ==
    IF i = 1 THEN Apoapsis(bodies[i])
    ELSE FMax(MaxApoapsis(bodies, i - 1), Apoapsis(bodies[i]))

MAX_AU == MaxApoapsis(BODIES, Len(BODIES))

(***************************************************************************)
(* Math.pow at the slider positions the model moves the sliders to (the    *)
(* sliders are range inputs 0..100, step 1).  SliderRatio[s] is            *)
(* (ZOOM_MAX / ZOOM_MIN) ^ ((s / 100) ^ ZOOM_SLIDER_EXP) and               *)
(* SliderSpeed[s] is Math.round((s / 100) ^ 3.2 * SPEED_MAX), both         *)
(* computed in doubles from the source's formulas.                         *)
(***************************************************************************)
SliderRatio ==
    (0 :> FOne) @@ (25 :> Norm(9694141, -23)) @@ (50 :> Norm(9655081, -21))
    @@ (75 :> Norm(14046686, -15)) @@ (100 :> FInt(10000000))

SliderSpeed == (0 :> 0) @@ (25 :> 237) @@ (50 :> 2176) @@ (75 :> 7966) @@ (100 :> 20000)

sliderToZoom(slider) == clamp(FMul(ZOOM_MIN, SliderRatio[slider]), ZOOM_MIN, ZOOM_MAX)

sliderToSpeed(slider) == FInt(SliderSpeed[slider])

(***************************************************************************)
(* Bounds of the model: the inputs the environment may deliver.            *)
(***************************************************************************)
\* Number of animation frames that run.
MaxFrames == 3

\* Number of user inputs (pointer-down and pointer-up not counted).
MaxInputs == 2

\* Time between two animation frames, in milliseconds.
FrameStepsMs == {50, 250}

\* The props <<initialZoom, initialSpeed>> the host mounts the component with;
\* the first pair is the default.  The props are plain numbers: nothing in
\* the type or the component restricts them.
Configs == { <<FInt(1), FInt(250)>>, <<FInt(500000), FInt(-250)>> }

\* Size of the wrapper element at mount and after a resize.
Viewports == { [w |-> 1280, h |-> 720], [w |-> 390, h |-> 844] }

\* Size of the wrapper element when the component mounts.
MountViewport == [w |-> 1280, h |-> 720]

\* Where a drag starts.
PressPixels == { [x |-> 640, y |-> 360] }

\* Pointer and wheel positions, in pixels relative to the canvas.
Pixels == { [x |-> 640, y |-> 360], [x |-> 700, y |-> 300] }

\* Names passed to focusBody ("Pluto" is not a configured body).
FocusNames == {"Sun", "Jupiter", "Pluto"}

ZoomSliderInputs == {0, 100}

\* Math.sign(event.deltaY) of the wheel events delivered.
WheelSigns == {-1, 1}

SpeedSliderInputs == {0, 100}

(***************************************************************************)
(* State.  The fields of stateRef, the refs beside it, the props and the   *)
(* clock of the host; then the history variables the properties read.      *)
(***************************************************************************)
VARIABLES
    paused,         \* stateRef.current.paused
    zoom,           \* stateRef.current.zoom
    baseScale,      \* stateRef.current.baseScale
    speed,          \* stateRef.current.speed
    timeDays,       \* stateRef.current.timeDays
    camera,         \* stateRef.current.camera
    focus,          \* stateRef.current.focus
    lastFrameMs,    \* stateRef.current.lastFrameMs
    cameraAnim,     \* cameraAnimRef.current
    dragging,       \* draggingRef.current
    size,           \* sizeRef.current (w, h)
    initialSpeed,   \* the initialSpeed prop
    now,            \* performance.now(); the time of the last frame or later
    lastOp,         \* history: the handler that ran last
    inputs,         \* history: user inputs so far
    frames,         \* history: animation frames so far
    awaitingFirstTick, \* history: no frame since mount or since the last reset
    firstTick,      \* history: the last frame was the first since mount or reset
    lastTickAt,     \* history: timestamp of the last frame (0: none)
    lastGap,        \* history: milliseconds between the last two frames (0: none)
    pausedTick,     \* history: the last frame ran while paused
    resumedTick,    \* history: the last frame ran unpaused, the one before paused
    replacedEnd,    \* history: end snapshot of the transition replaced last
    showOrbits,     \* stateRef.current.showOrbits
    showLabels,     \* stateRef.current.showLabels
    showTrails,     \* stateRef.current.showTrails
    solver,         \* one call of solveKepler: its arguments, locals and position
    orbit,          \* one call of bodyPositionAUprime: its arguments and result
    trails          \* trailRef.current: per body of BODIES, its recent screen points

stateVars == <<paused, zoom, baseScale, speed, timeDays, camera, focus, lastFrameMs>>

clockVars == <<paused, speed, timeDays, lastFrameMs>>

tickHistory == <<awaitingFirstTick, firstTick, lastTickAt, lastGap, pausedTick,
                 resumedTick>>

\* The rendering filters of stateRef.
displayFlags == <<showOrbits, showLabels, showTrails>>

\* The calls of the orbit solver that are followed on their own.
pureCalls == <<solver, orbit>>

vars == <<paused, zoom, baseScale, speed, timeDays, camera, focus, lastFrameMs,
          cameraAnim, dragging, size, initialSpeed, now, lastOp, inputs, frames,
          awaitingFirstTick, firstTick, lastTickAt, lastGap, pausedTick,
          resumedTick, replacedEnd, showOrbits, showLabels, showTrails,
          solver, orbit, trails>>

\* Everything but the two calls followed on their own.
sceneVars == <<paused, zoom, baseScale, speed, timeDays, camera, focus,
               lastFrameMs, cameraAnim, dragging, size, initialSpeed, now,
               lastOp, inputs, frames, awaitingFirstTick, firstTick, lastTickAt,
               lastGap, pausedTick, resumedTick, replacedEnd, showOrbits,
               showLabels, showTrails, trails>>

\* No call of the orbit solver is being followed.
NoCall == [pc |-> "idle"]

\* cameraAnimRef.current = null
NoAnim == [active |-> FALSE]

\* trailRef.current = {}: no body has a point.
NoTrails == [i \in 1..Len(BODIES) |-> <<>>]

\* No transition has been replaced yet.
NoSnapshot == [none |-> TRUE]

Snapshot(x, y, z) == [x |-> x, y |-> y, zoom |-> z]

CameraSnapshot == Snapshot(camera.x, camera.y, zoom)

CameraAnim(start, end, t0, dur) ==
    [active |-> TRUE, start |-> start, end |-> end, t0 |-> t0, dur |-> dur]

TransitionMs == 500

FrameCapMs == 100

\* fitAll: the base scale for a viewport.
FitScale(sz) ==
    LET pad == FDec(1, 1)
        minSide == FInt(IF sz.w < sz.h THEN sz.w ELSE sz.h)
        usable == FMul(minSide, FSub(FOne, FMul(pad, FInt(2))))
        scale == FDiv(usable, FMul(FInt(2), MAX_AU))
    IN  FMax(FInt(6), scale)

toScreen(x, y, cam, z, base, sz) ==
    LET scale == FMul(base, z)
    IN  Point(FAdd(FMul(FSub(x, cam.x), scale), FDiv(FInt(sz.w), FInt(2))),
              FAdd(FMul(FSub(y, cam.y), scale), FDiv(FInt(sz.h), FInt(2))))

\* Fault variant of toWorld: the camera position is not added back.
toWorldFromOrigin(px, py, cam, z, base, sz) ==
    LET scale == FMul(base, z)
    IN  Point(FDiv(FSub(px, FDiv(FInt(sz.w), FInt(2))), scale),
              FDiv(FSub(py, FDiv(FInt(sz.h), FInt(2))), scale))

toWorld(px, py, cam, z, base, sz) ==
    LET scale == FMul(base, z)
    IN  Point(FAdd(FDiv(FSub(px, FDiv(FInt(sz.w), FInt(2))), scale), cam.x),
              FAdd(FDiv(FSub(py, FDiv(FInt(sz.h), FInt(2))), scale), cam.y))

(***************************************************************************)
(* Evaluation cache.  timeDays only takes values that sums of frame        *)
(* advances reach; the positions of the focusable planets at those values  *)
(* are tabulated once.  PositionAt is bodyPositionAUprime, read from the   *)
(* table where the table has the value.                                    *)
(***************************************************************************)
SpeedValues(cfg) == {cfg[2]} \cup { clamp(sliderToSpeed(sl), SPEED_MIN, SPEED_MAX) : sl \in SpeedSliderInputs }

FrameAdvances(cfg) ==
    { FMul(FDiv(FInt(IF d < FrameCapMs THEN d ELSE FrameCapMs), FInt(1000)), sp) :
        d \in FrameStepsMs, sp \in SpeedValues(cfg) }

RECURSIVE TimesAfter(_, _)
TimesAfter(cfg, k) ==
    IF k = 0 THEN {FZero}
    ELSE LET prev == TimesAfter(cfg, k - 1)
         IN  prev \cup { FAdd(tm, adv) : tm \in prev, adv \in FrameAdvances(cfg) }

TimeGrid == UNION { TimesAfter(cfg, MaxFrames) : cfg \in Configs }

PlanetNames == { nm \in FocusNames : bodyByName(nm) # undefined /\ nm # "Sun" }

PositionTable == [ nm \in PlanetNames, tm \in TimeGrid |-> bodyPositionAUprime(bodyByName(nm), tm) ]

Tabulated(body, tDays) ==
    body # undefined /\ body.name \in PlanetNames /\ tDays \in TimeGrid

PositionAt(body, tDays) ==
    IF Tabulated(body, tDays) THEN PositionTable[body.name, tDays]
    ELSE bodyPositionAUprime(body, tDays)

(***************************************************************************)
(* Init: the state after the mount effect has run (resize, then fitAll).   *)
(***************************************************************************)
\* The state after the mount effect for the props cfg and the wrapper size sz.
Mounted(cfg, sz) ==
    /\ paused = FALSE
    /\ zoom = cfg[1]
    /\ baseScale = FitScale(sz)
    /\ speed = cfg[2]
    /\ timeDays = FZero
    /\ camera = Point(FZero, FZero)
    /\ focus = "Sun"
    /\ lastFrameMs = 0
    /\ cameraAnim = NoAnim
    /\ dragging = [active |-> FALSE, lastX |-> 0, lastY |-> 0]
    /\ size = sz
    /\ initialSpeed = cfg[2]
    /\ now = 0
    /\ lastOp = "mount"
    /\ inputs = 0
    /\ frames = 0
    /\ awaitingFirstTick = TRUE
    /\ firstTick = FALSE
    /\ lastTickAt = 0
    /\ lastGap = 0
    /\ pausedTick = FALSE
    /\ resumedTick = FALSE
    /\ replacedEnd = NoSnapshot
    /\ showOrbits = TRUE
    /\ showLabels = TRUE
    /\ showTrails = FALSE
    /\ solver = NoCall
    /\ orbit = NoCall
    /\ trails = NoTrails

Init == \E cfg \in Configs, sz \in {MountViewport} : Mounted(cfg, sz)

\* A user input is delivered: counted, and named in lastOp.
Input(op) ==
    /\ inputs < MaxInputs
    /\ inputs' = inputs + 1
    /\ lastOp' = op
    /\ UNCHANGED frames

(***************************************************************************)
(* tick(now): one animation frame.  The drawing that follows the two       *)
(* blocks below reads the state and writes the trails only.                *)
(***************************************************************************)
\* The eased fraction of a transition at timestamp t.
EasedAt(anim, t) ==
    LET frac == FMin(FOne, FDiv(FInt(t - anim.t0), FInt(anim.dur)))
    IN  FMul(FSub(FOne, MathCos(FMul(frac, MathPI))), FDec(5, 1))

\* Fault variant of the test that ends the transition: t > 1, which the
\* clamped fraction never satisfies.
TransitionOverNever(anim, t) ==
    FLt(FOne, FMin(FOne, FDiv(FInt(t - anim.t0), FInt(anim.dur))))

\* t >= 1 in tick: the frame that ends the transition.
TransitionOver(anim, t) ==
    ~FLt(FMin(FOne, FDiv(FInt(t - anim.t0), FInt(anim.dur))), FOne)

\* <<camera, zoom, cameraAnim>> of a transition at the eased fraction.
Interpolated(anim, eased, over) ==
    << Point(lerp(anim.start.x, anim.end.x, eased),
             lerp(anim.start.y, anim.end.y, eased)),
       lerp(anim.start.zoom, anim.end.zoom, eased),
       IF over THEN NoAnim ELSE anim >>

\* The camera block of tick: <<camera, zoom, cameraAnim>> after it.
TickCamera(anim, cam, z, t) ==
    IF anim.active
    THEN Interpolated(anim, EasedAt(anim, t), TransitionOver(anim, t))
    ELSE <<cam, z, anim>>

\* Fault variant of the clock block: the days advance whether paused or not.
TickClockIgnoringPause(last, days, isPaused, spd, t) ==
    LET base == IF last = 0 THEN t ELSE last
        gap == t - base
        dt == IF gap < FrameCapMs THEN gap ELSE FrameCapMs
    IN  << t, FAdd(days, FMul(FDiv(FInt(dt), FInt(1000)), spd)) >>

\* Fault variant of the clock block: a paused frame leaves the baseline alone.
TickClockBaselineWhenRunning(last, days, isPaused, spd, t) ==
    LET base == IF last = 0 THEN t ELSE last
        gap == t - base
        dt == IF gap < FrameCapMs THEN gap ELSE FrameCapMs
    IN  IF isPaused THEN << base, days >>
        ELSE << t, FAdd(days, FMul(FDiv(FInt(dt), FInt(1000)), spd)) >>

\* Fault variant of the clock block: the frame gap is not capped.
TickClockUncapped(last, days, isPaused, spd, t) ==
    LET base == IF last = 0 THEN t ELSE last
    IN  << t,
           IF isPaused THEN days
           ELSE FAdd(days, FMul(FDiv(FInt(t - base), FInt(1000)), spd)) >>

\* The clock block of tick: <<lastFrameMs, timeDays>> after it.
TickClock(last, days, isPaused, spd, t) ==
    LET base == IF last = 0 THEN t ELSE last
        gap == t - base
        dt == IF gap < FrameCapMs THEN gap ELSE FrameCapMs
    IN  << t,
           IF isPaused THEN days
           ELSE FAdd(days, FMul(FDiv(FInt(dt), FInt(1000)), spd)) >>

\* Fault variant of the view of a frame: the drawing reads the camera, the
\* zoom and the days the frame found, not the ones it left.
FrameViewStale(cam, z, days) ==
    [cam |-> camera, z |-> zoom, base |-> baseScale, sz |-> size, t |-> timeDays]

\* What drawBody reads in a frame: the camera, the zoom and the days the two
\* blocks above left, and the base scale and the size.
FrameView(cam, z, days) ==
    [cam |-> cam, z |-> z, base |-> baseScale, sz |-> size, t |-> days]

\* point of drawBody: toScreen of the body's position.
ScreenPoint(pos, view) ==
    toScreen(pos.x, pos.y, view.cam, view.z, view.base, view.sz)

DrawnPoint(body, view) == ScreenPoint(PositionAt(body, view.t), view)

\* arr.length > 80
TrailCap == 80

\* Fault variant of the trail: at capacity the new point is dropped.
TrailedKeepingOldest(arr, point) ==
    IF Len(arr) >= TrailCap THEN arr ELSE Append(arr, point)

\* arr.push(point); if (arr.length > 80) arr.shift()
Trailed(arr, point) ==
    IF Len(Append(arr, point)) > TrailCap THEN Tail(Append(arr, point))
    ELSE Append(arr, point)

\* trailRef.current after BODIES.forEach(drawBody) with trails shown.
DrawTrails(tr, view) ==
    [i \in 1..Len(BODIES) |->
        IF BODIES[i].name = "Sun" THEN tr[i]
        ELSE Trailed(tr[i], DrawnPoint(BODIES[i], view))]

\* One frame: the camera block, the clock block, then the drawing.
Frame(d) ==
    /\ frames' = frames + 1
    /\ now' = now + d
    /\ LET cam3 == TickCamera(cameraAnim, camera, zoom, now + d)
           clk == TickClock(lastFrameMs, timeDays, paused, speed, now + d)
       IN  /\ camera' = cam3[1]
           /\ zoom' = cam3[2]
           /\ cameraAnim' = cam3[3]
           /\ lastFrameMs' = clk[1]
           /\ timeDays' = clk[2]
    /\ lastOp' = "tick"
    /\ awaitingFirstTick' = FALSE
    /\ firstTick' = awaitingFirstTick
    /\ lastTickAt' = now + d
    /\ lastGap' = IF frames = 0 THEN 0 ELSE d
    /\ pausedTick' = paused
    /\ resumedTick' = (~paused /\ pausedTick)
    /\ trails' = IF showTrails
                 THEN DrawTrails(trails, FrameView(camera', zoom', timeDays'))
                 ELSE trails
    /\ UNCHANGED <<paused, baseScale, speed, focus, dragging, size, initialSpeed,
                   inputs, replacedEnd>>
    /\ UNCHANGED <<displayFlags, pureCalls>>

Tick(d) == frames < MaxFrames /\ Frame(d)

(***************************************************************************)
(* focusBody(name, animate)                                                *)
(***************************************************************************)
\* Fault variant of the fallback: the last body of the list stands in.
FocusTargetLast(name) ==
    IF bodyByName(name) = undefined THEN BODIES[Len(BODIES)] ELSE bodyByName(name)

FocusTarget(name) ==
    IF bodyByName(name) = undefined THEN BODIES[1] ELSE bodyByName(name)

DesiredZoom(target, base, sz) ==
    LET minSide == IF sz.w < sz.h THEN sz.w ELSE sz.h
        viewportMin == FInt(IF minSide > 320 THEN minSide ELSE 320)
        radiusAU == FDiv(Num(target.radius_km), AU_KM)
        bodyScale == FMax(FMul(radiusAU, base), FDec(1, 9))
        preferredPx ==
            IF target.name = "Sun"
            THEN FMax(FMul(viewportMin, FDec(28, 2)), FInt(220))
            ELSE FMax(FInt(24), FMin(FMul(viewportMin, FDec(22, 2)), FInt(120)))
    IN  clamp(FDiv(preferredPx, bodyScale), ZOOM_MIN, ZOOM_MAX)

\* The end snapshot focusBody computes for a name in the current state.
SnapshotAt(pos, z) == Snapshot(pos.x, pos.y, z)

FocusEndOf(target) ==
    SnapshotAt(PositionAt(target, timeDays), DesiredZoom(target, baseScale, size))

FocusEnd(name) == FocusEndOf(FocusTarget(name))

\* Fault variant of the animated focus: a transition in flight is kept and
\* the new request is dropped.
AnimatedFocusKeepingOld(anim, start, end, t) ==
    IF anim.active THEN anim ELSE CameraAnim(start, end, t, TransitionMs)

\* cameraAnimRef.current after focusBody(name, true).
AnimatedFocus(anim, start, end, t) == CameraAnim(start, end, t, TransitionMs)

\* cameraAnimRef.current after focusBody(name, false): not written.
ImmediateFocus(anim) == anim

\* The two branches of focusBody on animate, end the snapshot to reach.
FocusCamera(end, animate) ==
    IF animate
    THEN /\ cameraAnim' = AnimatedFocus(cameraAnim, CameraSnapshot, end, now)
         /\ replacedEnd' = IF cameraAnim.active THEN cameraAnim.end
                           ELSE replacedEnd
         /\ UNCHANGED <<camera, zoom>>
    ELSE /\ camera' = Point(end.x, end.y)
         /\ zoom' = end.zoom
         /\ cameraAnim' = ImmediateFocus(cameraAnim)
         /\ UNCHANGED replacedEnd

focusBody(name, animate) ==
    /\ Input(IF animate THEN "focus" ELSE "focusNow")
    /\ focus' = FocusTarget(name).name
    /\ FocusCamera(FocusEnd(name), animate)
    /\ UNCHANGED <<paused, baseScale, speed, timeDays, lastFrameMs, dragging,
                   size, initialSpeed, now>>
    /\ UNCHANGED tickHistory
    /\ UNCHANGED <<displayFlags, pureCalls, trails>>

(***************************************************************************)
(* Pointer handlers.  Pointer coordinates are relative to a canvas whose   *)
(* bounding rectangle starts at the origin of the page.                    *)
(***************************************************************************)
onPointerDown(px) ==
    /\ ~dragging.active
    /\ inputs < MaxInputs
    /\ dragging' = [active |-> TRUE, lastX |-> px.x, lastY |-> px.y]
    /\ lastOp' = "pointerdown"
    /\ UNCHANGED <<paused, zoom, baseScale, speed, timeDays, camera, focus,
                   lastFrameMs, cameraAnim, size, initialSpeed, now, inputs,
                   frames, replacedEnd>>
    /\ UNCHANGED tickHistory
    /\ UNCHANGED <<displayFlags, pureCalls, trails>>

\* Fault variant of the drag: the pixel delta is not taken to world units.
DraggedUnscaled(cam, z, base, drag, px) ==
    Point(FSub(cam.x, FInt(px.x - drag.lastX)),
          FSub(cam.y, FInt(px.y - drag.lastY)))

\* The camera after a drag from the remembered pointer position to px.
Dragged(cam, z, base, drag, px) ==
    LET scale == FMul(base, z)
    IN  Point(FSub(cam.x, FDiv(FInt(px.x - drag.lastX), scale)),
              FSub(cam.y, FDiv(FInt(px.y - drag.lastY), scale)))

\* A move outside a drag returns before it reads or writes anything.
onPointerMove(px) ==
    /\ Input("pointermove")
    /\ IF dragging.active
       THEN /\ camera' = Dragged(camera, zoom, baseScale, dragging, px)
            /\ dragging' = [active |-> TRUE, lastX |-> px.x, lastY |-> px.y]
       ELSE UNCHANGED <<camera, dragging>>
    /\ UNCHANGED <<paused, zoom, baseScale, speed, timeDays, focus, lastFrameMs,
                   cameraAnim, size, initialSpeed, now, replacedEnd>>
    /\ UNCHANGED tickHistory
    /\ UNCHANGED <<displayFlags, pureCalls, trails>>

onPointerUp ==
    /\ dragging.active
    /\ dragging' = [dragging EXCEPT !.active = FALSE]
    /\ lastOp' = "pointerup"
    /\ UNCHANGED <<paused, zoom, baseScale, speed, timeDays, camera, focus,
                   lastFrameMs, cameraAnim, size, initialSpeed, now, inputs,
                   frames, replacedEnd>>
    /\ UNCHANGED tickHistory
    /\ UNCHANGED <<displayFlags, pureCalls, trails>>

(***************************************************************************)
(* onWheel: zoom by 8% towards or away from the pointer.                   *)
(***************************************************************************)
WheelZoom(zoomPrev, sign) ==
    clamp(FMul(zoomPrev, FAdd(FOne, FMul(FInt(sign), FDec(-8, 2)))),
          ZOOM_MIN, ZOOM_MAX)

\* Fault variant of onWheel: the camera is left where it was.
WheelCameraUnanchored(cam, zoomPrev, zoomNext, base, sz, px) == cam

\* The camera after the anchor correction of onWheel.
WheelCamera(cam, zoomPrev, zoomNext, base, sz, px) ==
    LET worldBefore == toWorld(FInt(px.x), FInt(px.y), cam, zoomPrev, base, sz)
        worldAfter == toWorld(FInt(px.x), FInt(px.y), cam, zoomNext, base, sz)
    IN  Point(FAdd(cam.x, FSub(worldBefore.x, worldAfter.x)),
              FAdd(cam.y, FSub(worldBefore.y, worldAfter.y)))

onWheel(sign, px) ==
    /\ Input("wheel")
    /\ LET zoomNext == WheelZoom(zoom, sign)
       IN  IF zoomNext = zoom
           THEN UNCHANGED <<zoom, camera>>
           ELSE /\ zoom' = zoomNext
                /\ camera' = WheelCamera(camera, zoom, zoomNext, baseScale, size, px)
    /\ UNCHANGED <<paused, baseScale, speed, timeDays, focus, lastFrameMs,
                   cameraAnim, dragging, size, initialSpeed, now, replacedEnd>>
    /\ UNCHANGED tickHistory
    /\ UNCHANGED <<displayFlags, pureCalls, trails>>

(***************************************************************************)
(* Control panel: sliders and buttons.                                     *)
(***************************************************************************)
setZoomBoth(value) == clamp(value, ZOOM_MIN, ZOOM_MAX)

handleZoomSlider(slider) ==
    /\ Input("zoomSlider")
    /\ zoom' = setZoomBoth(sliderToZoom(slider))
    /\ UNCHANGED <<paused, baseScale, speed, timeDays, camera, focus,
                   lastFrameMs, cameraAnim, dragging, size, initialSpeed, now,
                   replacedEnd>>
    /\ UNCHANGED tickHistory
    /\ UNCHANGED <<displayFlags, pureCalls, trails>>

setSpeedBoth(value) == clamp(value, SPEED_MIN, SPEED_MAX)

handleSpeedSlider(slider) ==
    /\ Input("speedSlider")
    /\ speed' = setSpeedBoth(sliderToSpeed(slider))
    /\ UNCHANGED <<paused, zoom, baseScale, timeDays, camera, focus,
                   lastFrameMs, cameraAnim, dragging, size, initialSpeed, now,
                   replacedEnd>>
    /\ UNCHANGED tickHistory
    /\ UNCHANGED <<displayFlags, pureCalls, trails>>

\* Fault variant of the pause button: pausing also centres the camera.
togglePauseCentering ==
    /\ Input("togglePause")
    /\ paused' = ~paused
    /\ camera' = Point(FZero, FZero)
    /\ UNCHANGED <<zoom, baseScale, speed, timeDays, focus, lastFrameMs,
                   cameraAnim, dragging, size, initialSpeed, now, replacedEnd>>
    /\ UNCHANGED tickHistory
    /\ UNCHANGED <<displayFlags, pureCalls, trails>>

togglePause ==
    /\ Input("togglePause")
    /\ paused' = ~paused
    /\ UNCHANGED <<zoom, baseScale, speed, timeDays, camera, focus, lastFrameMs,
                   cameraAnim, dragging, size, initialSpeed, now, replacedEnd>>
    /\ UNCHANGED tickHistory
    /\ UNCHANGED <<displayFlags, pureCalls, trails>>

centerSun ==
    /\ Input("centerSun")
    /\ camera' = Point(FZero, FZero)
    /\ UNCHANGED <<paused, zoom, baseScale, speed, timeDays, focus, lastFrameMs,
                   cameraAnim, dragging, size, initialSpeed, now, replacedEnd>>
    /\ UNCHANGED tickHistory
    /\ UNCHANGED <<displayFlags, pureCalls, trails>>

\* stateRef.current.speed after resetAll.
ResetSpeed(initial) == initial

\* Fault variant of the reset: the baseline of the last frame is kept.
ResetBaselineKept(last) == last

\* stateRef.current.lastFrameMs after resetAll.
ResetBaseline(last) == 0

resetAll ==
    /\ Input("resetAll")
    /\ zoom' = FInt(1)
    /\ speed' = ResetSpeed(initialSpeed)
    /\ camera' = Point(FZero, FZero)
    /\ focus' = "Sun"
    /\ paused' = FALSE
    /\ lastFrameMs' = ResetBaseline(lastFrameMs)
    /\ baseScale' = FitScale(size)
    /\ awaitingFirstTick' = TRUE
    /\ UNCHANGED <<timeDays, cameraAnim, dragging, size, initialSpeed, now,
                   replacedEnd, firstTick, lastTickAt, lastGap, pausedTick,
                   resumedTick>>
    /\ UNCHANGED <<displayFlags, pureCalls, trails>>

\* Fault variant of fitAll: fitting also puts the zoom back to 1.
fitAllResettingZoom ==
    /\ Input("fitAll")
    /\ baseScale' = FitScale(size)
    /\ zoom' = FInt(1)
    /\ UNCHANGED <<paused, speed, timeDays, camera, focus, lastFrameMs,
                   cameraAnim, dragging, size, initialSpeed, now, replacedEnd>>
    /\ UNCHANGED tickHistory
    /\ UNCHANGED <<displayFlags, pureCalls, trails>>

\* The Fit button and the F key.
fitAll ==
    /\ Input("fitAll")
    /\ baseScale' = FitScale(size)
    /\ UNCHANGED <<paused, zoom, speed, timeDays, camera, focus, lastFrameMs,
                   cameraAnim, dragging, size, initialSpeed, now, replacedEnd>>
    /\ UNCHANGED tickHistory
    /\ UNCHANGED <<displayFlags, pureCalls, trails>>

\* The window is resized: the new size is recorded and fitAll runs.
resize(sz) ==
    /\ sz # size
    /\ Input("resize")
    /\ size' = sz
    /\ baseScale' = FitScale(sz)
    /\ UNCHANGED <<paused, zoom, speed, timeDays, camera, focus, lastFrameMs,
                   cameraAnim, dragging, initialSpeed, now, replacedEnd>>
    /\ UNCHANGED tickHistory
    /\ UNCHANGED <<displayFlags, pureCalls, trails>>

Next ==
    \/ \E d \in FrameStepsMs : Tick(d)
    \/ \E name \in FocusNames, animate \in BOOLEAN : focusBody(name, animate)
    \/ \E px \in PressPixels : onPointerDown(px)
    \/ \E px \in Pixels : onPointerMove(px)
    \/ onPointerUp
    \/ \E sign \in WheelSigns, px \in Pixels : onWheel(sign, px)
    \/ \E slider \in ZoomSliderInputs : handleZoomSlider(slider)
    \/ \E slider \in SpeedSliderInputs : handleSpeedSlider(slider)
    \/ togglePause
    \/ centerSun
    \/ resetAll
    \/ fitAll
    \/ \E sz \in Viewports : resize(sz)

Spec == Init /\ [][Next]_vars

(***************************************************************************)
(* onClick: picking.  The callback of BODIES.forEach keeps the nearest     *)
(* body seen so far that lies within its hit radius; a hit is focused      *)
(* with an animation.  The click position is a pair of numbers.            *)
(***************************************************************************)
\* Math.hypot
MathHypot(dx, dy) == FSqrt(FAdd(FMul(dx, dx), FMul(dy, dy)))

planetPixelRadius(body, base, z) ==
    FMul(FDiv(Num(body.radius_km), AU_KM), FMul(base, z))

\* Elapsed days after at most MaxFrames frames at the default speed.
PickTimes == TimesAfter(<<FInt(1), FInt(250)>>, MaxFrames)

BodyNames == { BODIES[i].name : i \in 1..Len(BODIES) }

\* bodyPositionAUprime of every body at those times, tabulated once.
PickTable == [ nm \in BodyNames, tm \in PickTimes |-> bodyPositionAUprime(bodyByName(nm), tm) ]

PositionOf(body, tDays) ==
    IF tDays \in PickTimes THEN PickTable[body.name, tDays]
    ELSE bodyPositionAUprime(body, tDays)

\* What toScreen reads: camera, zoom, base scale and size; and the time.
View == [cam |-> camera, z |-> zoom, base |-> baseScale, sz |-> size, t |-> timeDays]

\* toScreen of a world point under a view.
ScreenOf(pos, view) == toScreen(pos.x, pos.y, view.cam, view.z, view.base, view.sz)

\* distance of the callback: from the click to the body's screen position.
ClickDistance(point, mx, my) == MathHypot(FSub(mx, point.x), FSub(my, point.y))

\* best and bestDistance before the loop: undefined and Infinity.
NoPick == [best |-> undefined]

Pick(body, distance) == [best |-> body, bestDistance |-> distance]

\* Fault variant of the callback: a body as near as the best replaces it.
ConsideredTiesLater(pick, body, distance, radius) ==
    IF /\ FLt(distance, FMax(FInt(10), FAdd(radius, FInt(6))))
       /\ (pick.best = undefined \/ FLe(distance, pick.bestDistance))
    THEN Pick(body, distance)
    ELSE pick

\* One call of the callback: best and bestDistance after it.
Considered(pick, body, distance, radius) ==
    IF /\ FLt(distance, FMax(FInt(10), FAdd(radius, FInt(6))))
       /\ (pick.best = undefined \/ FLt(distance, pick.bestDistance))
    THEN Pick(body, distance)
    ELSE pick

\* BODIES.forEach from the i-th body on.
RECURSIVE PickLoop(_, _, _, _, _, _)
PickLoop(bodies, i, pick, mx, my, view) ==
    IF i > Len(bodies) THEN pick
    ELSE PickLoop(bodies, i + 1,
                  Considered(pick, bodies[i],
                             ClickDistance(ScreenOf(PositionOf(bodies[i], view.t), view),
                                           mx, my),
                             planetPixelRadius(bodies[i], view.base, view.z)),
                  mx, my, view)

\* best after the loop, for a click at (mx, my).
Picked(mx, my, view) == PickLoop(BODIES, 1, NoPick, mx, my, view).best

\* The end of onClick: focusBody(best.name, true) when a body was picked.
ClickOutcome(best) ==
    IF best = undefined
    THEN UNCHANGED <<focus, camera, zoom, cameraAnim, replacedEnd>>
    ELSE /\ focus' = FocusTarget(best.name).name
         /\ FocusCamera(FocusEnd(best.name), TRUE)

onClick(click) ==
    /\ Input("click")
    /\ ClickOutcome(Picked(click.x, click.y, View))
    /\ UNCHANGED <<paused, baseScale, speed, timeDays, lastFrameMs, dragging,
                   size, initialSpeed, now>>
    /\ UNCHANGED tickHistory
    /\ UNCHANGED <<displayFlags, pureCalls, trails>>

(***************************************************************************)
(* The rendering filters.  The component reads the three flags when it     *)
(* draws; the toggles are the handlers of the O and L keys and of the      *)
(* buttons, and the trail toggle of the control surface.                   *)
(***************************************************************************)
\* Fault variant of the orbit toggle: the toggle also pauses the clock.
toggleOrbitsPausing ==
    /\ Input("toggleOrbits")
    /\ showOrbits' = ~showOrbits
    /\ paused' = TRUE
    /\ UNCHANGED <<zoom, baseScale, speed, timeDays, camera, focus,
                   lastFrameMs, cameraAnim, dragging, size, initialSpeed, now,
                   replacedEnd>>
    /\ UNCHANGED tickHistory
    /\ UNCHANGED <<showLabels, showTrails, pureCalls, trails>>

toggleOrbits ==
    /\ Input("toggleOrbits")
    /\ showOrbits' = ~showOrbits
    /\ UNCHANGED <<paused, zoom, baseScale, speed, timeDays, camera, focus,
                   lastFrameMs, cameraAnim, dragging, size, initialSpeed, now,
                   replacedEnd>>
    /\ UNCHANGED tickHistory
    /\ UNCHANGED <<showLabels, showTrails, pureCalls, trails>>

toggleLabels ==
    /\ Input("toggleLabels")
    /\ showLabels' = ~showLabels
    /\ UNCHANGED <<paused, zoom, baseScale, speed, timeDays, camera, focus,
                   lastFrameMs, cameraAnim, dragging, size, initialSpeed, now,
                   replacedEnd>>
    /\ UNCHANGED tickHistory
    /\ UNCHANGED <<showOrbits, showTrails, pureCalls, trails>>

toggleTrails ==
    /\ Input("toggleTrails")
    /\ showTrails' = ~showTrails
    /\ UNCHANGED <<paused, zoom, baseScale, speed, timeDays, camera, focus,
                   lastFrameMs, cameraAnim, dragging, size, initialSpeed, now,
                   replacedEnd>>
    /\ UNCHANGED tickHistory
    /\ UNCHANGED <<showOrbits, showLabels, pureCalls, trails>>

(***************************************************************************)
(* ViewSpec: the view under pointer, wheel, click, slider, focus, fit and  *)
(* resize, and the rendering filters, over a shorter run of frames.        *)
(***************************************************************************)
\* Number of animation frames that run under ViewSpec.
ViewFrames == 2

\* The props under ViewSpec: the default, and an initial zoom of 2^-60.
ViewConfigs == { <<FInt(1), FInt(250)>>, <<Norm(1, -60), FInt(250)>> }

\* Names passed to focusBody under ViewSpec ("Pluto" is not a configured body).
ViewFocusNames == {"Jupiter", "Pluto"}

\* The bodies a click is aimed at.
ClickNames == {"Sun", "Mercury", "Jupiter", "Neptune"}

\* Where the clicks land: the pixels of the pointer, and the screen position
\* of each of those bodies as toScreen computes it in the current state.
ClickTargets ==
    { Point(FInt(px.x), FInt(px.y)) : px \in Pixels }
    \cup { ScreenOf(PositionOf(bodyByName(nm), timeDays), View) : nm \in ClickNames }

ViewInit == \E cfg \in ViewConfigs : Mounted(cfg, MountViewport)

ViewNext ==
    \/ frames < ViewFrames /\ Tick(250)
    \/ \E name \in ViewFocusNames : focusBody(name, TRUE)
    \/ \E px \in PressPixels : onPointerDown(px)
    \/ \E px \in Pixels : onPointerMove(px)
    \/ onPointerUp
    \/ \E sign \in WheelSigns, px \in Pixels : onWheel(sign, px)
    \/ \E slider \in ZoomSliderInputs : handleZoomSlider(slider)
    \/ \E click \in ClickTargets : onClick(click)
    \/ toggleOrbits
    \/ toggleLabels
    \/ toggleTrails
    \/ fitAll
    \/ \E sz \in Viewports : resize(sz)

ViewSpec == ViewInit /\ [][ViewNext]_vars

(***************************************************************************)
(* onKey: the keydown listener of the window.  An event is its code and    *)
(* its key; lastOp keeps the code of the event handled last.               *)
(***************************************************************************)
\* The keys pressed: digits with a body, a digit without one, Space, F in
\* both cases, and a key the listener has no branch for.
KeyEvents ==
    { [code |-> "Digit1", key |-> "1"], [code |-> "Digit6", key |-> "6"],
      [code |-> "Digit9", key |-> "9"], [code |-> "Digit0", key |-> "0"],
      [code |-> "Space", key |-> " "], [code |-> "KeyF", key |-> "f"],
      [code |-> "KeyF", key |-> "F"], [code |-> "KeyX", key |-> "x"] }

\* '123456789'.indexOf(key) for a key of one character.
DigitIndex(key) ==
    LET digits == <<"1", "2", "3", "4", "5", "6", "7", "8", "9">>
        at == { i \in 1..Len(digits) : digits[i] = key }
    IN  IF at = {} THEN -1 ELSE (CHOOSE i \in at : TRUE) - 1

\* Fault variant of the digit branch: the digit is taken as the index.
KeyBodyFromDigit(index) == BODIES[IF index + 2 > Len(BODIES) THEN 1 ELSE index + 2]

\* BODIES[index]
KeyBody(index) == BODIES[index + 1]

\* The branches of onKey after the Space test, index the result of indexOf.
KeyOutcome(event, index) ==
    IF index >= 0 /\ index < Len(BODIES)
    THEN /\ focus' = FocusTarget(KeyBody(index).name).name
         /\ FocusCamera(FocusEnd(KeyBody(index).name), TRUE)
         /\ UNCHANGED <<paused, baseScale>>
    ELSE IF event.key = "f" \/ event.key = "F"
    THEN /\ baseScale' = FitScale(size)
         /\ UNCHANGED <<paused, focus, camera, zoom, cameraAnim, replacedEnd>>
    ELSE UNCHANGED <<paused, baseScale, focus, camera, zoom, cameraAnim, replacedEnd>>

onKey(event) ==
    /\ Input(event.code)
    /\ IF event.code = "Space"
       THEN /\ paused' = ~paused
            /\ UNCHANGED <<baseScale, focus, camera, zoom, cameraAnim, replacedEnd>>
       ELSE KeyOutcome(event, DigitIndex(event.key))
    /\ UNCHANGED <<speed, timeDays, lastFrameMs, dragging, size, initialSpeed, now>>
    /\ UNCHANGED tickHistory
    /\ UNCHANGED <<displayFlags, pureCalls, trails>>

\* The keyboard with frames, wheel zooms and resizes between the keys.
KeyInit == Mounted(<<FInt(1), FInt(250)>>, MountViewport)

KeyNext ==
    \/ \E event \in KeyEvents : onKey(event)
    \/ frames < ViewFrames /\ Tick(250)
    \/ \E sign \in WheelSigns, px \in Pixels : onWheel(sign, px)
    \/ \E sz \in Viewports : resize(sz)

KeySpec == KeyInit /\ [][KeyNext]_vars

(***************************************************************************)
(* solveKepler, one statement group at a time.  solver holds the arguments *)
(* (M, e), the locals (m, E, i, and delta of the last pass) and the        *)
(* position in the function: "idle" outside a call, "loop" at the head of  *)
(* the for loop, "done" at a return.                                       *)
(***************************************************************************)
\* Mean anomalies passed in: inside [0, 2 pi), above it, and negative.
MeanAnomalies ==
    { FZero, FDec(5, 1), FInt(1), FInt(2), FInt(3), MathPI, FInt(5), FInt(7),
      FInt(100), FNeg(FInt(1)) }

\* Eccentricities passed in: 0, the orbits of the scene, and both sides of
\* the 0.8 that selects the first iterate.
Eccentricities ==
    { FZero, FDec(1671, 5), FDec(20563, 5), FDec(5, 1), FDec(79, 2),
      FDec(8, 1), FDec(9, 1), FDec(99, 2) }

\* The locals at the head of the loop, or at a return.
KeplerLocals(pc, M, e, m, E, i, delta) ==
    [pc |-> pc, M |-> M, e |-> e, m |-> m, E |-> E, i |-> i, delta |-> delta]

\* Lines 2313-2316: normalise, return m when e === 0, else choose the first
\* iterate and enter the loop.
KeplerEntered(M, e, m) ==
    IF e = FZero
    THEN KeplerLocals("done", M, e, m, m, 0, FZero)
    ELSE KeplerLocals("loop", M, e, m, KeplerStart(m, e), 0, FZero)

KeplerCall(M, e) ==
    /\ solver.pc = "idle"
    /\ solver' = KeplerEntered(M, e, normalizeAngle(M))
    /\ UNCHANGED <<sceneVars, orbit>>

\* One pass of the loop body with its correction delta, then the loop head:
\* break when |delta| < 1e-8, leave the loop when i reaches 12.
KeplerPassed(s, delta) ==
    KeplerLocals(IF FLt(FAbs(delta), KeplerTolerance) \/ s.i + 1 >= KeplerMaxIter
                 THEN "done" ELSE "loop",
                 s.M, s.e, s.m, FSub(s.E, delta), s.i + 1, delta)

KeplerIterate ==
    /\ solver.pc = "loop"
    /\ solver' = KeplerPassed(solver, KeplerDelta(solver.E, solver.m, solver.e))
    /\ UNCHANGED <<sceneVars, orbit>>

\* return: the call is over.
KeplerReturn ==
    /\ solver.pc = "done"
    /\ solver' = NoCall
    /\ UNCHANGED <<sceneVars, orbit>>

KeplerInit == Mounted(<<FInt(1), FInt(250)>>, MountViewport)

KeplerNext ==
    \/ \E M \in MeanAnomalies, e \in Eccentricities : KeplerCall(M, e)
    \/ KeplerIterate
    \/ KeplerReturn

KeplerSpec == KeplerInit /\ [][KeplerNext]_vars

(***************************************************************************)
(* bodyPositionAUprime, one call at a time.  orbit holds the arguments of  *)
(* the call and the point it returns.                                      *)
(***************************************************************************)
\* A planet on a circle, which the scene does not have: it takes the
\* e === 0 branch.
CircularBody ==
    Body("Circular", "planet", <<1, 0>>, <<6371, 0>>, <<365256, 3>>, <<0, 0>>,
         <<0, 0>>)

\* The bodies passed in: those of the scene, a circular one, and undefined.
OrbitBodies == { BODIES[i] : i \in 1..Len(BODIES) } \cup {CircularBody, undefined}

\* The elapsed days passed in: 0, some days and years, and half the period
\* of each planet.
OrbitTimes ==
    { FZero, FInt(1), FInt(10), FInt(100), FInt(250), FInt(1000) }
        \cup { FDiv(Num(BODIES[i].period_days), FInt(2)) : i \in 2..Len(BODIES) }

OrbitCall(body, tDays) ==
    /\ orbit.pc = "idle"
    /\ orbit' = [pc |-> "done", body |-> body, tDays |-> tDays,
                 point |-> bodyPositionAUprime(body, tDays)]
    /\ UNCHANGED <<sceneVars, solver>>

OrbitReturn ==
    /\ orbit.pc = "done"
    /\ orbit' = NoCall
    /\ UNCHANGED <<sceneVars, solver>>

OrbitInit == Mounted(<<FInt(1), FInt(250)>>, MountViewport)

OrbitNext ==
    \/ \E body \in OrbitBodies, tDays \in OrbitTimes : OrbitCall(body, tDays)
    \/ OrbitReturn

OrbitSpec == OrbitInit /\ [][OrbitNext]_vars

(***************************************************************************)
(* The component under the props and wrapper sizes a host may give it,     *)
(* among them an initial zoom that is not positive and an empty wrapper.   *)
(***************************************************************************)
PropConfigs == { <<FInt(1), FInt(250)>>, <<FNeg(FInt(1)), FInt(250)>> }

PropViewports == Viewports \cup { [w |-> 0, h |-> 0] }

PropsInit == \E cfg \in PropConfigs, sz \in PropViewports : Mounted(cfg, sz)

PropsNext ==
    \/ \E d \in FrameStepsMs : Tick(d)
    \/ \E sz \in PropViewports : resize(sz)
    \/ fitAll
    \/ \E sign \in WheelSigns, px \in Pixels : onWheel(sign, px)
    \/ \E name \in FocusNames : focusBody(name, TRUE)

PropsSpec == PropsInit /\ [][PropsNext]_vars

(***************************************************************************)
(* TrailSpec: a long run of frames, long enough for the trails to fill.    *)
(* The inputs (trail toggle, focus request) arrive during the first        *)
(* frames; after them only frames follow.                                  *)
(***************************************************************************)
\* Number of frames of the run.
TrailFrames == 82

\* Inputs arrive before this many frames have run.
TrailInputFrames == 2

TrailInit == Mounted(<<FInt(1), FInt(250)>>, MountViewport)

TrailNext ==
    \/ frames < TrailFrames /\ Frame(250)
    \/ frames < TrailInputFrames /\ toggleTrails
    \/ frames < TrailInputFrames /\ focusBody("Jupiter", TRUE)

TrailSpec == TrailInit /\ [][TrailNext]_vars

(***************************************************************************)
(* Properties.                                                             *)
(***************************************************************************)
\* The inputs that pan or zoom directly.
DirectInputs == {"pointermove", "wheel", "zoomSlider"}

\* A step that is an animation frame.
IsTick == lastOp' = "tick"

\* C1: a direct pan or zoom input (pointer drag, wheel, zoom slider) cancels
\* an active transition: the frame that follows the input does not overwrite
\* the camera position or the zoom the input left.
C1_DirectInputCancels ==
    [][(lastOp \in DirectInputs /\ IsTick) => (camera' = camera /\ zoom' = zoom)]_vars

\* C2 as stated: the end snapshot of a replaced transition is never the
\* camera state afterwards.
C2_ReplacedEndNeverReached ==
    replacedEnd # NoSnapshot => CameraSnapshot # replacedEnd

\* C2: there is one transition slot; an animated focus request puts in it a
\* transition from the camera position and zoom at the moment of the request
\* to the requested body (the Sun for an unknown name), begun now and
\* TransitionMs long, whatever the slot held; and a frame moves the camera
\* along the transition in the slot and no other.
C2_FocusReplaces ==
    /\ [][lastOp' = "focus" =>
            /\ cameraAnim'.active
            /\ cameraAnim'.start = CameraSnapshot
            /\ cameraAnim'.end.x = PositionAt(bodyByName(focus'), timeDays).x
            /\ cameraAnim'.end.y = PositionAt(bodyByName(focus'), timeDays).y
            /\ cameraAnim'.end.zoom = DesiredZoom(bodyByName(focus'), baseScale, size)
            /\ cameraAnim'.t0 = now
            /\ cameraAnim'.dur = TransitionMs]_vars
    /\ [][(IsTick /\ cameraAnim.active) =>
            /\ camera'.x = lerp(cameraAnim.start.x, cameraAnim.end.x, EasedAt(cameraAnim, now'))
            /\ camera'.y = lerp(cameraAnim.start.y, cameraAnim.end.y, EasedAt(cameraAnim, now'))
            /\ zoom' = lerp(cameraAnim.start.zoom, cameraAnim.end.zoom, EasedAt(cameraAnim, now'))
            /\ cameraAnim' \in {cameraAnim, NoAnim}]_vars

\* C2 witness: a second animated focus request arrived while the transition
\* of the first was in flight, and asked for another body.
C2_Witness ==
    /\ lastOp = "focus"
    /\ inputs = 2
    /\ frames >= 1
    /\ replacedEnd # NoSnapshot
    /\ cameraAnim.active
    /\ cameraAnim.end # replacedEnd
    /\ cameraAnim.start # Snapshot(FZero, FZero, FInt(1))

\* C3: the first frame at or after t0 + dur of a transition sets camera x, y
\* and zoom exactly to the end snapshot and clears the transition; a frame
\* with no transition leaves camera x, y and zoom unchanged.
C3_TransitionEndsExactly ==
    [][IsTick =>
        /\ (cameraAnim.active /\ now' >= cameraAnim.t0 + cameraAnim.dur) =>
              (CameraSnapshot' = cameraAnim.end /\ cameraAnim' = NoAnim)
        /\ ~cameraAnim.active => CameraSnapshot' = CameraSnapshot]_vars

\* C4: a non-animated focus request sets the camera to the position of the
\* body and the zoom to the target zoom at once, and the frame after the
\* request leaves the camera at the values the request set.
C4_ImmediateFocusCancels ==
    /\ [][lastOp' = "focusNow" =>
            /\ camera' = PositionAt(bodyByName(focus'), timeDays)
            /\ zoom' = DesiredZoom(bodyByName(focus'), baseScale, size)]_vars
    /\ [][(lastOp = "focusNow" /\ IsTick) => (camera' = camera /\ zoom' = zoom)]_vars

\* C5: in every reachable state the zoom lies in [ZOOM_MIN, ZOOM_MAX].
C5_ZoomInRange == FLe(ZOOM_MIN, zoom) /\ FLe(zoom, ZOOM_MAX)

\* C6: in every reachable state the speed lies in [SPEED_MIN, SPEED_MAX].
C6_SpeedInRange == FLe(SPEED_MIN, speed) /\ FLe(speed, SPEED_MAX)

\* C7: a frame that runs while the paused flag is set leaves the elapsed
\* simulation days unchanged, whatever its timestamp.
C7_PausedFreezes ==
    [][(IsTick /\ paused) => timeDays' = timeDays]_vars

\* C7 witness: a frame other than the first ran while paused, at a speed
\* other than zero.
C7_Witness ==
    /\ lastOp = "tick"
    /\ pausedTick
    /\ ~firstTick
    /\ speed # FZero

\* C8: the elapsed simulation days never decrease, whatever the step.
C8_DaysNeverDecrease ==
    [][FLe(timeDays, timeDays')]_vars

\* C9: the first frame after mount and the first frame after a reset record
\* their timestamp as the baseline and advance the elapsed days by 0.
C9_FirstTickAdvancesZero ==
    [][(IsTick /\ awaitingFirstTick) =>
          (lastFrameMs' = now' /\ timeDays' = timeDays)]_vars

\* C9 witness: the first frame after a reset ran, later than the first frame
\* after mount, with the clock running at a speed other than zero.
C9_Witness ==
    /\ lastOp = "tick"
    /\ firstTick
    /\ frames >= 2
    /\ lastGap > 0
    /\ ~paused
    /\ speed # FZero

\* The days a frame adds for ms milliseconds at speed spd.
Advance(ms, spd) == FMul(FDiv(FInt(ms), FInt(1000)), spd)

\* C10: every frame, paused or not, records its timestamp as the baseline;
\* so an unpaused frame that follows a paused one advances the elapsed days
\* by the time since the frame just before it (at most FrameCapMs of it)
\* times the speed, and by none of the time the pause lasted.
C10_BaselineEveryTick ==
    [][IsTick =>
        /\ lastFrameMs' = now'
        /\ (~paused /\ pausedTick /\ ~awaitingFirstTick) =>
              \E ms \in 0..FrameCapMs :
                  /\ ms <= now' - lastTickAt
                  /\ (ms = now' - lastTickAt \/ ms = FrameCapMs)
                  /\ timeDays' = FAdd(timeDays, Advance(ms, speed))]_vars

\* C10 witness: after a first frame and a frame that ran while paused, an
\* unpaused frame ran, less than FrameCapMs after the paused one.
C10_Witness ==
    /\ lastOp = "tick"
    /\ resumedTick
    /\ ~firstTick
    /\ frames >= 3
    /\ speed # FZero
    /\ lastGap > 0
    /\ lastGap < FrameCapMs

\* A step that ran fitAll from the Fit button, the F key or a resize.
IsFit == lastOp' \in {"fitAll", "resize"}

\* The body of the list from index i down whose apoapsis is largest (the
\* first of them in list order).
RECURSIVE FarthestBody(_, _)
FarthestBody(bodies, i) ==
    IF i = 1 THEN bodies[1]
    ELSE IF FLt(Apoapsis(FarthestBody(bodies, i - 1)), Apoapsis(bodies[i]))
         THEN bodies[i]
         ELSE FarthestBody(bodies, i - 1)

\* The apoapsis point of a body: its orbit at the eccentric anomaly PI.
ApoapsisPoint(body) ==
    OnEllipse(Num(body.sma_au), Num(body.eccentricity), MathPI,
              toRadians(Num(body.perihelion_deg)))

FarthestPoint == ApoapsisPoint(FarthestBody(BODIES, Len(BODIES)))

\* The pixel lies in the rectangle [0, w] x [0, h].
InViewport(pixel, sz) ==
    /\ FLe(FZero, pixel.x) /\ FLe(pixel.x, FInt(sz.w))
    /\ FLe(FZero, pixel.y) /\ FLe(pixel.y, FInt(sz.h))

\* C13: right after fitAll, from whatever state it runs in, the apoapsis
\* point of the body with the largest apoapsis projects through toScreen to
\* a pixel inside the viewport.
C13_FitShowsFarthest ==
    [][IsFit =>
          InViewport(toScreen(FarthestPoint.x, FarthestPoint.y,
                              camera', zoom', baseScale', size'), size')]_vars

\* C14: fitAll, from the Fit button, the F key or a resize, writes the base
\* scale and nothing else of the view or the clock: zoom, camera, focus, the
\* clock and the transition in flight (start, end, t0, dur) stay as they were.
C14_FitOnlyBaseScale ==
    [][IsFit =>
          /\ baseScale' = FitScale(size')
          /\ UNCHANGED <<zoom, camera, focus, cameraAnim>>
          /\ UNCHANGED clockVars]_vars

\* C14 witness: a resize ran fitAll while a transition was in flight, the
\* zoom away from 1 and the base scale changed by the resize.
C14_Witness ==
    /\ lastOp = "resize"
    /\ cameraAnim.active
    /\ zoom # FInt(1)
    /\ baseScale # FitScale(MountViewport)

(***************************************************************************)
(* Properties of the view, checked under ViewSpec.                         *)
(***************************************************************************)
\* magnitude * 2^(k - Prec): k units of rounding at that magnitude.
Ulps(k, magnitude) == FMul(magnitude, <<Pow2(Prec - 1), k - 2 * Prec + 1>>)

\* |a - b| <= tol
Within(a, b, tol) == FLe(FAbs(FSub(a, b)), tol)

Sum3(a, b, c) == FAdd(FAdd(FAbs(a), FAbs(b)), FAbs(c))

\* toWorld of a pixel of the pointer under a view.
WorldOf(px, view) ==
    toWorld(FInt(px.x), FInt(px.y), view.cam, view.z, view.base, view.sz)

\* A step of onWheel at the pixel px that changed the zoom.
IsWheelAt(px) ==
    /\ lastOp' = "wheel"
    /\ zoom' # zoom
    /\ zoom' = WheelZoom(zoom, 1) \/ zoom' = WheelZoom(zoom, -1)
    /\ camera' = WheelCamera(camera, zoom, zoom', baseScale, size, px)

\* C11 as stated: a wheel zoom at the pixel p that changes the zoom leaves
\* toWorld(p) exactly where it was.
C11_WheelAnchorExact ==
    [][\A px \in Pixels : IsWheelAt(px) => WorldOf(px, View') = WorldOf(px, View)]_vars

\* The rounding allowed to the anchor: 2^(3 - Prec) of the magnitudes that
\* are added, the camera before and after and the world point.
AnchorSlack(before, after, world) == Ulps(3, Sum3(before, after, world))

\* C11, amended: a wheel zoom at the pixel p that changes the zoom leaves
\* toWorld(p) where it was up to rounding: each coordinate after the handler
\* is within 2^(3 - Prec) * (|camera before| + |camera after| + |toWorld(p)
\* before|) of the coordinate before it.
C11_WheelAnchor ==
    [][\A px \in Pixels : IsWheelAt(px) =>
          /\ Within(WorldOf(px, View').x, WorldOf(px, View).x,
                    AnchorSlack(camera.x, camera'.x, WorldOf(px, View).x))
          /\ Within(WorldOf(px, View').y, WorldOf(px, View).y,
                    AnchorSlack(camera.y, camera'.y, WorldOf(px, View).y))]_vars

\* C11 witness: a wheel event away from the centre of the viewport changed
\* the zoom and moved the camera, after another input.
C11_Witness ==
    /\ lastOp = "wheel"
    /\ inputs = 2
    /\ camera.x # FZero
    /\ camera.y # FZero
    /\ zoom # FInt(1)

\* The world points of the round trips: the bodies a click is aimed at.
TripPoints == { PositionOf(bodyByName(nm), timeDays) : nm \in ClickNames }

\* toWorld(toScreen(x, y)) under a view.
WorldTrip(pos, view) ==
    toWorld(ScreenOf(pos, view).x, ScreenOf(pos, view).y,
            view.cam, view.z, view.base, view.sz)

\* toScreen(toWorld(px, py)) under a view.
ScreenTrip(px, view) == ScreenOf(WorldOf(px, view), view)

\* The camera position maps to the centre of the viewport, exactly.
CentreFixed(view) ==
    ScreenOf(view.cam, view) = Point(FDiv(FInt(view.sz.w), FInt(2)),
                                     FDiv(FInt(view.sz.h), FInt(2)))

\* C12 as stated: the two round trips return exactly the point they
\* started from, and the camera maps to the centre of the viewport.
C12_RoundTripExact ==
    /\ \A pos \in TripPoints : WorldTrip(pos, View) = pos
    /\ \A px \in Pixels : ScreenTrip(px, View) = Point(FInt(px.x), FInt(px.y))
    /\ CentreFixed(View)

\* Rounding of world -> screen -> world at one coordinate: of the world
\* point and the camera, and of the pixel and the half size taken back to
\* world units.
WorldSlack(x, c, q, half, scale) ==
    Ulps(3, FAdd(Sum3(x, c, FSub(x, c)),
                 FDiv(FAdd(FAbs(q), FAbs(half)), FAbs(scale))))

\* Rounding of screen -> world -> screen at one coordinate: of the world
\* point and its offset from the camera taken to pixels, and of the pixel.
ScreenSlack(world, c, q, half, scale) ==
    Ulps(3, FAdd(FMul(FAdd(FAbs(world), FAbs(FSub(world, c))), FAbs(scale)),
                 FAdd(FAbs(q), FAbs(half))))

WorldTripNear(pos, view) ==
    /\ Within(WorldTrip(pos, view).x, pos.x,
              WorldSlack(pos.x, view.cam.x, ScreenOf(pos, view).x,
                         FDiv(FInt(view.sz.w), FInt(2)), FMul(view.base, view.z)))
    /\ Within(WorldTrip(pos, view).y, pos.y,
              WorldSlack(pos.y, view.cam.y, ScreenOf(pos, view).y,
                         FDiv(FInt(view.sz.h), FInt(2)), FMul(view.base, view.z)))

ScreenTripNear(px, view) ==
    /\ Within(ScreenTrip(px, view).x, FInt(px.x),
              ScreenSlack(WorldOf(px, view).x, view.cam.x, FInt(px.x),
                          FDiv(FInt(view.sz.w), FInt(2)), FMul(view.base, view.z)))
    /\ Within(ScreenTrip(px, view).y, FInt(px.y),
              ScreenSlack(WorldOf(px, view).y, view.cam.y, FInt(px.y),
                          FDiv(FInt(view.sz.h), FInt(2)), FMul(view.base, view.z)))

\* C12, amended: under one camera snapshot the two round trips return the
\* point they started from up to rounding (2^(3 - Prec) of the magnitudes
\* that are added, pixels taken to world units by the scale and back), and
\* the camera position maps exactly to the centre of the viewport.
C12_RoundTrip ==
    /\ \A pos \in TripPoints : WorldTripNear(pos, View)
    /\ \A px \in Pixels : ScreenTripNear(px, View)
    /\ CentreFixed(View)

\* C12 witness: the camera is panned, the zoom is not 1, the viewport is
\* not the one of the mount, and a round trip misses its start by rounding.
C12_Witness ==
    /\ camera.x # FZero
    /\ zoom # FInt(1)
    /\ size # MountViewport
    /\ \E pos \in TripPoints : WorldTrip(pos, View) # pos

\* The names of the focus requests that no configured body has.
UnknownNames == { nm \in ViewFocusNames : bodyByName(nm) = undefined }

\* C15: a focus request naming a body that is not in the list is served
\* exactly as a request for the first body of the list, the star: its step
\* is a step of that request, and the focus stored is the name of the first
\* body.
C15_UnknownFocusFallsBack ==
    [][\A nm \in UnknownNames :
          focusBody(nm, TRUE) =>
              (focusBody(BODIES[1].name, TRUE) /\ focus' = BODIES[1].name)]_vars

\* C15 witness: the star is focused by a focus request (only a request for
\* a name that is not in the list focuses it here), made after the clock
\* has run and from a camera that is not on the star.
C15_Witness ==
    /\ lastOp = "focus"
    /\ focus = BODIES[1].name
    /\ cameraAnim.active
    /\ cameraAnim.start.x # FZero
    /\ timeDays # FZero

\* A step of onClick.
IsClick == lastOp' = "click"

\* The distance, in pixels, from a click to the i-th body on the screen.
DistanceTo(i, click) ==
    ClickDistance(ScreenOf(PositionOf(BODIES[i], timeDays), View), click.x, click.y)

\* The i-th body lies within its hit radius of the click.
Eligible(i, click) ==
    FLt(DistanceTo(i, click),
        FMax(FInt(10), FAdd(planetPixelRadius(BODIES[i], baseScale, zoom), FInt(6))))

\* The i-th body is eligible, no eligible body is nearer to the click, and
\* no eligible body as near comes before it in the list.
Nearest(i, click) ==
    /\ Eligible(i, click)
    /\ \A j \in 1..Len(BODIES) :
          Eligible(j, click) =>
              \/ FLt(DistanceTo(i, click), DistanceTo(j, click))
              \/ (DistanceTo(i, click) = DistanceTo(j, click) /\ i <= j)

\* The step focuses the i-th body: its name is stored and a transition to
\* it starts from the current camera.
Focuses(i) ==
    /\ focus' = BODIES[i].name
    /\ cameraAnim' = CameraAnim(CameraSnapshot, FocusEnd(BODIES[i].name), now,
                                TransitionMs)

\* C16: a click focuses the body nearest to it on the screen among the
\* bodies within max(10, pixel radius + 6) of it, the earlier in the list
\* when two are equally near; when no body is that near, the focus, the
\* camera and the transition are unchanged.
C16_ClickPicksNearest ==
    [][IsClick =>
          \A click \in ClickTargets : onClick(click) =>
              IF \E i \in 1..Len(BODIES) : Eligible(i, click)
              THEN \E i \in 1..Len(BODIES) : Nearest(i, click) /\ Focuses(i)
              ELSE UNCHANGED <<focus, camera, zoom, cameraAnim>>]_vars

\* C16 witness: at the smallest zoom, where the star and the inner planets
\* lie within ten pixels of one another, a click focused Jupiter, the sixth
\* body of the list.
C16_Witness ==
    /\ lastOp = "click"
    /\ zoom = ZOOM_MIN
    /\ focus = "Jupiter"
    /\ cameraAnim.active

\* C17: a click exactly at the screen position of a body, as toScreen
\* computes it from the body's orbital position, focuses that body and no
\* other, in every reachable state.
C17_ClickOnBodyPicksIt ==
    [][IsClick =>
          \A nm \in ClickNames :
              onClick(ScreenOf(PositionOf(bodyByName(nm), timeDays), View)) =>
                  focus' = nm]_vars

\* A step of one of the three visibility toggles.
IsToggle == lastOp' \in {"toggleOrbits", "toggleLabels", "toggleTrails"}

\* Exactly the flag the toggle names is inverted; the other two are kept.
OnlyNamedFlagFlips ==
    /\ showOrbits' = (IF lastOp' = "toggleOrbits" THEN ~showOrbits ELSE showOrbits)
    /\ showLabels' = (IF lastOp' = "toggleLabels" THEN ~showLabels ELSE showLabels)
    /\ showTrails' = (IF lastOp' = "toggleTrails" THEN ~showTrails ELSE showTrails)

InKepler == solver.pc \in {"loop", "done"}

\* The loop never makes more than 12 passes.
KeplerCapped == InKepler => solver.i <= KeplerMaxIter

\* A return before the 12th pass follows a correction below 1e-8, and the
\* loop is not left while passes remain and the correction is not below it.
KeplerStopsOnTolerance ==
    /\ (solver.pc = "done" /\ solver.e # FZero /\ solver.i < KeplerMaxIter)
          => (solver.i > 0 /\ FLt(FAbs(solver.delta), KeplerTolerance))
    /\ (solver.pc = "loop" /\ solver.i > 0)
          => ~FLt(FAbs(solver.delta), KeplerTolerance)

\* Before the first pass E is the normalized mean anomaly when e < 0.8 and
\* pi when e >= 0.8.
KeplerStartsRight ==
    (solver.pc = "loop" /\ solver.i = 0) =>
        solver.E = (IF FLt(solver.e, FDec(8, 1)) THEN normalizeAngle(solver.M)
                    ELSE MathPI)

\* With e = 0 the normalized mean anomaly is returned and no pass is made.
KeplerCircular ==
    (InKepler /\ solver.e = FZero) =>
        (solver.pc = "done" /\ solver.i = 0 /\ solver.E = normalizeAngle(solver.M))

\* Every step taken inside the loop is one more pass: it counts i up by one
\* and stays in the call, and no state at the head of the loop has made all
\* 12 passes.  So a call is at its return after at most 12 steps.
KeplerAdvances ==
    solver.pc = "loop" =>
        /\ solver.i < KeplerMaxIter
        /\ solver'.pc \in {"loop", "done"}
        /\ solver'.i = solver.i + 1

\* C19: solveKepler terminates after at most 12 Newton iterations, earlier
\* only when the magnitude of the last correction is below 1e-8; it starts
\* from the normalized mean anomaly when e < 0.8 and from pi when e >= 0.8,
\* and with e = 0 returns the normalized mean anomaly without iterating.
\* What it returns is what solveKepler, taken as a function, returns.
C19_KeplerTerminates ==
    /\ [](KeplerCapped /\ KeplerStopsOnTolerance /\ KeplerStartsRight
            /\ KeplerCircular)
    /\ [](solver.pc = "done" => solver.E = solveKepler(solver.M, solver.e))
    /\ [][KeplerAdvances]_vars

\* C19 witness: a call with e >= 0.8 that started from pi, never had a
\* correction below the tolerance and returned after the 12th pass.
C19_Witness ==
    /\ solver.pc = "done"
    /\ solver.i = KeplerMaxIter
    /\ ~FLt(solver.e, FDec(8, 1))
    /\ ~FLt(FAbs(solver.delta), KeplerTolerance)

(***************************************************************************)
(* Properties of the orbit position, checked under OrbitSpec.              *)
(***************************************************************************)
\* The call returned for a body that is not the star.
OrbitOfPlanet ==
    orbit.pc = "done" /\ orbit.body # undefined /\ orbit.body.name # "Sun"

\* The call returned for the star, or for no body.
OrbitOfStar ==
    orbit.pc = "done" /\ (orbit.body = undefined \/ orbit.body.name = "Sun")

\* Math.hypot(x, y) of the point returned.
OrbitDistance == MathHypot(orbit.point.x, orbit.point.y)

\* The elements of the body of the call and its mean anomaly.
OrbitA == Num(orbit.body.sma_au)

OrbitE == Num(orbit.body.eccentricity)

OrbitOmega == toRadians(Num(orbit.body.perihelion_deg))

OrbitM == MeanAnomaly(Num(orbit.body.period_days), orbit.tDays)

\* a(1 - e) and a(1 + e)
Periapsis == FMul(OrbitA, FSub(FOne, OrbitE))

Apoapse == FMul(OrbitA, FAdd(FOne, OrbitE))

\* The cases of the claim.
OnCircularOrbit == OrbitOfPlanet /\ OrbitE = FZero

AtPeriapsis == OrbitOfPlanet /\ OrbitE # FZero /\ OrbitM = FZero

AtApoapsis == OrbitOfPlanet /\ OrbitE # FZero /\ OrbitM = MathPI

DistanceSlack(d) == Ulps(3, d)

C21_ScalePositive == FLt(FZero, baseScale) /\ FLt(FZero, zoom)

(***************************************************************************)
(* Properties of the frame, checked under Spec.                            *)
(***************************************************************************)
\* min(gap, 100) / 1000 * speed, the days a frame adds after a gap in ms.
AdvanceFor(gap) ==
    FMul(FDiv(FInt(IF gap < 100 THEN gap ELSE 100), FInt(1000)), speed)

\* The frame adds the advance for that gap to the elapsed days, and the
\* advance is at most 0.1 x speed in magnitude.
AdvancesBy(gap) ==
    /\ timeDays' = FAdd(timeDays, AdvanceFor(gap))
    /\ FLe(FAbs(AdvanceFor(gap)), FMul(FDec(1, 1), FAbs(speed)))

\* C22 as stated: every unpaused tick advances the elapsed days by
\* min(now - lastFrameMs, 100) / 1000 x speed, lastFrameMs the value the
\* tick finds.
C22_TickAdvanceExact ==
    [][(IsTick /\ ~paused) => AdvancesBy(now' - lastFrameMs)]_vars

\* C22: an unpaused tick advances the elapsed days by
\* min(now - baseline, 100) / 1000 x speed, the baseline being lastFrameMs,
\* or the tick's own timestamp when lastFrameMs is 0 (the first tick after
\* mount or reset); so no tick advances them by more than 0.1 x speed.
C22_TickAdvance ==
    [][(IsTick /\ ~paused) =>
          AdvancesBy(IF lastFrameMs = 0 THEN 0 ELSE now' - lastFrameMs)]_vars

\* C22 witness: an unpaused frame 250 ms after the one before it, with a
\* baseline, has moved the elapsed days.
C22_Witness ==
    /\ lastOp = "tick"
    /\ lastGap = 250
    /\ ~pausedTick
    /\ ~firstTick
    /\ timeDays # FZero

\* C24: an animated focus request made while the camera position and the
\* zoom already equal the position of the requested body and its target
\* zoom leaves no transition active.
C24_NoTransitionAtTarget ==
    [][(lastOp' = "focus" /\ CameraSnapshot = FocusEnd(focus')) =>
          ~cameraAnim'.active]_vars

(***************************************************************************)
(* Properties of the drawing, checked under TrailSpec.                     *)
(***************************************************************************)
\* The indices of the planets in BODIES.
Planets == { i \in 1..Len(BODIES) : BODIES[i].name # "Sun" }

\* The screen position of the i-th body in the state a step leads to.
ScreenAfter(i) ==
    ScreenPoint(bodyPositionAUprime(BODIES[i], timeDays'),
                [cam |-> camera', z |-> zoom', base |-> baseScale', sz |-> size'])

\* A frame drawn with the trails shown.
IsTrailFrame == IsTick /\ showTrails

\* C23: within a frame the transition is applied to the camera and the
\* clock advances before the bodies are positioned: the point drawBody
\* computes for a body is toScreen of its position at the elapsed days the
\* frame leaves, under the camera and zoom the frame leaves, the same days
\* and camera for every body.  The point is read from the body's trail.
C23_DrawAfterCameraAndClock ==
    [][IsTrailFrame =>
          \A i \in Planets :
              trails'[i][Len(trails'[i])] = ScreenAfter(i)]_vars

\* C23 witness: a frame drawn while a transition to Jupiter was in flight
\* moved the camera and the clock and recorded a point for Jupiter.
C23_Witness ==
    /\ lastOp = "tick"
    /\ showTrails
    /\ cameraAnim.active
    /\ camera # Point(FZero, FZero)
    /\ timeDays # FZero
    /\ Len(trails[6]) >= 2

\* C25: each body's trail holds at most 80 points after every frame; a
\* frame drawn with the trails shown appends the body's current screen
\* position at the end and, when that exceeds the capacity, removes the
\* oldest point and no other; nothing else writes a trail; the star never
\* has one.
C25_TrailBounded ==
    /\ [](\A i \in 1..Len(BODIES) : Len(trails[i]) <= 80)
    /\ [](trails[1] = <<>>)
    /\ [][IsTrailFrame =>
            \A i \in Planets :
                trails'[i] = (IF Len(trails[i]) < 80 THEN trails[i]
                              ELSE SubSeq(trails[i], 2, 80)) \o <<ScreenAfter(i)>>]_vars
    /\ [][~IsTrailFrame => trails' = trails]_vars

\* C25 witness: after more than 80 frames with the trails shown the trail
\* of Mercury is full and its oldest point has been removed.
C25_Witness ==
    /\ showTrails
    /\ frames > 81
    /\ Len(trails[2]) = 80
    /\ trails[2][1] # trails[2][80]

(***************************************************************************)
(* Properties of the pan, checked under Spec.                              *)
(***************************************************************************)
\* World points whose screen position is followed: the origin, a point of
\* the inner system and one beyond Neptune.
DragPoints ==
    { Point(FZero, FZero), Point(FDec(52, 1), FDec(-3, 1)),
      Point(FInt(-31), FInt(17)) }

\* A step of onPointerMove during a drag, and one outside a drag.
IsDragMove == lastOp' = "pointermove" /\ dragging.active

IsIdleMove == lastOp' = "pointermove" /\ ~dragging.active

\* The pixel delta of a move: from the remembered pointer position to the
\* position of the event.
DragDX == FInt(dragging'.lastX - dragging.lastX)

DragDY == FInt(dragging'.lastY - dragging.lastY)

\* The camera loses the pixel delta divided by baseScale * zoom; zoom and
\* base scale stay.
DragSubtracts ==
    /\ camera'.x = FSub(camera.x, FDiv(DragDX, FMul(baseScale, zoom)))
    /\ camera'.y = FSub(camera.y, FDiv(DragDY, FMul(baseScale, zoom)))
    /\ zoom' = zoom
    /\ baseScale' = baseScale

ShiftSlack(x, before, after, delta, scale, q, r) ==
    Ulps(3, FAdd(FAdd(FAbs(delta),
                      FMul(Sum3(after, FSub(x, after), FSub(x, before)), FAbs(scale))),
                 FAdd(FAbs(q), FAbs(r))))

ShiftedNear(p) ==
    /\ Within(ScreenOf(p, View').x, FAdd(ScreenOf(p, View).x, DragDX),
              ShiftSlack(p.x, camera.x, camera'.x, DragDX, FMul(baseScale, zoom),
                         ScreenOf(p, View).x, ScreenOf(p, View').x))
    /\ Within(ScreenOf(p, View').y, FAdd(ScreenOf(p, View).y, DragDY),
              ShiftSlack(p.y, camera.y, camera'.y, DragDY, FMul(baseScale, zoom),
                         ScreenOf(p, View).y, ScreenOf(p, View').y))

CameraOps == {"pointermove", "wheel", "zoomSlider", "focus", "focusNow", "fitAll"}

\* The handlers of the clock: pause and resume, and the speed slider.
ClockOps == {"togglePause", "speedSlider"}

\* The elapsed days a frame leaves: the frame's own advance and no more,
\* whether or not a transition moved the camera in it.
DaysAfterFrame ==
    IF paused THEN timeDays
    ELSE FAdd(timeDays, AdvanceFor(IF lastFrameMs = 0 THEN 0 ELSE now' - lastFrameMs))

\* C27: the clock and the camera are independent.  Pan, wheel zoom, zoom
\* slider, focus and fitAll leave elapsed days, the paused flag and the
\* speed unchanged; a frame, with a transition or without, leaves the paused
\* flag and the speed unchanged and changes elapsed days by its own advance
\* only; pause, resume and set-speed leave camera position, zoom, base
\* scale, focus and the transition in flight unchanged.
C27_ClockCameraIndependent ==
    /\ [][lastOp' \in CameraOps => UNCHANGED <<timeDays, paused, speed>>]_vars
    /\ [][IsTick => (paused' = paused /\ speed' = speed /\ timeDays' = DaysAfterFrame)]_vars
    /\ [][lastOp' \in ClockOps =>
            UNCHANGED <<camera, zoom, baseScale, focus, cameraAnim>>]_vars

\* C27 witness: the clock was paused while a transition was in flight that
\* had already moved the camera and while the clock had advanced.
C27_Witness ==
    /\ lastOp = "togglePause"
    /\ paused
    /\ cameraAnim.active
    /\ camera # Point(FZero, FZero)
    /\ timeDays # FZero

(***************************************************************************)
(* The end of a transition, checked under Spec.                            *)
(***************************************************************************)
\* A transition is in the slot and the timestamps have not reached its end.
BeforeEnd == cameraAnim.active /\ now < cameraAnim.t0 + cameraAnim.dur

\* C28: every transition is destroyed once the frames reach its end.  A
\* frame at or after start + duration clears the slot, so no transition is
\* active in a state whose timestamp has reached its end; a frame moves the
\* timestamp forward and never fills the slot; and a transition (replaced
\* or not) that stays active for ever is one whose end the timestamps of
\* the frames never reach.
C28_TransitionDestroyed ==
    /\ [](cameraAnim.active => BeforeEnd)
    /\ [][(IsTick /\ cameraAnim.active /\ now' >= cameraAnim.t0 + cameraAnim.dur)
            => cameraAnim' = NoAnim]_vars
    /\ [][IsTick => (now' > now /\ cameraAnim' \in {cameraAnim, NoAnim})]_vars
    /\ (<>[](cameraAnim.active) => <>[]BeforeEnd)

\* C28 witness: the frame at start + duration, the second of the
\* transition, has just cleared the slot.
C28_Witness ==
    /\ lastOp = "tick"
    /\ ~cameraAnim.active
    /\ frames = 2
    /\ now = TransitionMs
    /\ focus = "Jupiter"
    /\ zoom # FInt(1)

(***************************************************************************)
(* Properties of the keyboard, checked under KeySpec.                      *)
(***************************************************************************)
\* Everything the handlers of the component write, but the fields named.
KeyRest == <<speed, timeDays, lastFrameMs, dragging, size, displayFlags, trails>>

\* A step that handled the key event.
IsKey(event) == lastOp' = event.code

\* What a digit key with a body does: an animated focus request for the
\* body at index digit - 1, which writes focus and the transition slot only.
DigitFocuses(index) ==
    /\ focus' = BODIES[index + 1].name
    /\ cameraAnim' = CameraAnim(CameraSnapshot, FocusEndOf(BODIES[index + 1]),
                                now, TransitionMs)
    /\ UNCHANGED <<paused, baseScale, camera, zoom>>

\* C29: a digit key '1'..'9' requests an animated focus on the body at
\* index digit - 1 when that index is below the body count, and changes
\* nothing otherwise; Space toggles the paused flag and nothing else; F
\* runs fitAll and nothing else.
C29_KeysDoTheirJob ==
    [][\A event \in KeyEvents : IsKey(event) =>
          /\ UNCHANGED KeyRest
          /\ IF event.code = "Space"
             THEN /\ paused' = ~paused
                  /\ UNCHANGED <<baseScale, focus, camera, zoom, cameraAnim>>
             ELSE IF event.key \in {"1", "6", "9"}
             THEN DigitFocuses(DigitIndex(event.key))
             ELSE IF event.key \in {"f", "F"}
             THEN /\ baseScale' = FitScale(size)
                  /\ UNCHANGED <<paused, focus, camera, zoom, cameraAnim>>
             ELSE UNCHANGED <<paused, baseScale, focus, camera, zoom, cameraAnim>>]_vars

\* C29 witness: the 6 key was pressed after a frame and another input, and
\* a transition to Jupiter, the sixth body, is in flight.
C29_Witness ==
    /\ lastOp = "Digit6"
    /\ inputs = 2
    /\ frames >= 1
    /\ focus = "Jupiter"
    /\ cameraAnim.active
    /\ cameraAnim.end.x = PositionAt(BODIES[6], timeDays).x

(***************************************************************************)
(* The reset, checked under Spec.                                          *)
(***************************************************************************)
\* C30: resetAll leaves the camera at (0, 0), the zoom at 1, the focus on
\* the Sun and the clock unpaused at the initial speed, and the frames that
\* follow the reset, the first of them already, leave the camera and the
\* zoom at those values, also when a transition was in flight at the reset.
C30_ResetPersists ==
    /\ [][lastOp' = "resetAll" =>
            /\ camera' = Point(FZero, FZero)
            /\ zoom' = FInt(1)
            /\ focus' = "Sun"
            /\ ~paused'
            /\ speed' = initialSpeed]_vars
    /\ [][(lastOp = "resetAll" /\ IsTick) =>
            (camera' = Point(FZero, FZero) /\ zoom' = FInt(1))]_vars

====
